---- MODULE Spec2Model ----
(***************************************************************************)
(* Model of convert_mediawikixml_to_markdown.py: the batch run of Convert  *)
(* (page loop, path resolution, writer, index pass) and the pure text      *)
(* functions CleanLink.normalize_path, the table balancing scan of         *)
(* Convert.clean_text and the legacy URL rewrite.                          *)
(*                                                                         *)
(* Python strings are sequences of one-character strings.  The external    *)
(* converter (pandoc) is a black box: its result is either a failure or    *)
(* its input wrapped in marker tokens.                                     *)
(***************************************************************************)
EXTENDS Integers, Sequences, FiniteSets, TLC

\* ------------------------------------------------------------------------
\* Bounds of the model
\* ------------------------------------------------------------------------
MaxPages == 2
MaxPathLen == 5
MaxTextLen == 6
MaxUrlLen == 2
MaxVer == 2
MaxTableLen == 4

\* ------------------------------------------------------------------------
\* String helpers (Python str methods)
\* ------------------------------------------------------------------------
None == <<"<None>">>

Range(s) == {s[i] : i \in 1..Len(s)}

Last(s) == s[Len(s)]

Front(s) == SubSeq(s, 1, Len(s) - 1)

\* all sequences over alphabet A of length <= n
RECURSIVE StringsUpTo(_, _)
StringsUpTo(A, n) ==
  IF n = 0 THEN {<<>>}
  ELSE LET shorter == StringsUpTo(A, n - 1)
       IN  shorter \cup {Append(s, c) : s \in {t \in shorter : Len(t) = n - 1}, c \in A}

\* s.startswith(p)
startswith(s, p) == Len(s) >= Len(p) /\ SubSeq(s, 1, Len(p)) = p

\* s.endswith(p)
endswith(s, p) == Len(s) >= Len(p) /\ SubSeq(s, Len(s) - Len(p) + 1, Len(s)) = p

\* s.replace(old, new): leftmost, non-overlapping occurrences, old non-empty
RECURSIVE replace(_, _, _)
replace(s, old, new) ==
  IF s = <<>> THEN <<>>
  ELSE IF startswith(s, old)
       THEN new \o replace(SubSeq(s, Len(old) + 1, Len(s)), old, new)
       ELSE <<s[1]>> \o replace(Tail(s), old, new)

\* s.split(sep) for a one-character separator
RECURSIVE split(_, _)
split(s, sep) ==
  IF \A i \in 1..Len(s) : s[i] # sep THEN <<s>>
  ELSE LET k == CHOOSE i \in 1..Len(s) : s[i] = sep /\ \A j \in 1..(i - 1) : s[j] # sep
       IN  <<SubSeq(s, 1, k - 1)>> \o split(SubSeq(s, k + 1, Len(s)), sep)

\* sep.join(parts)
RECURSIVE join(_, _)
join(sep, parts) ==
  IF parts = <<>> THEN <<>>
  ELSE IF Len(parts) = 1 THEN parts[1]
  ELSE parts[1] \o sep \o join(sep, Tail(parts))

Whitespace == {" ", "\n", "\t", "\r"}

RECURSIVE lstrip(_)
lstrip(s) == IF s # <<>> /\ s[1] \in Whitespace THEN lstrip(Tail(s)) ELSE s

RECURSIVE rstrip(_)
rstrip(s) == IF s # <<>> /\ Last(s) \in Whitespace THEN rstrip(Front(s)) ELSE s

\* s.strip()
strip(s) == rstrip(lstrip(s))

\* os.path.join(a, b) (posixpath)
path_join(a, b) ==
  IF startswith(b, <<"/">>) THEN b
  ELSE IF a = <<>> \/ endswith(a, <<"/">>) THEN a \o b
  ELSE a \o <<"/">> \o b

\* ------------------------------------------------------------------------
\* Convert: options, run state, file system
\* ------------------------------------------------------------------------
VARIABLES
  flatten, addmeta, indexes, skiperrors,   \* options (fixed for the run)
  data_to_convert,                         \* page records in document order
  page_idx,                                \* next page of the loop in convert_data
  counter, directory_list,                 \* run state
  files, dirs,                             \* file system: path -> content, directories
  pandoc_calls,                            \* invocations of the external converter by run_pandoc
  page_log,                                \* per processed page: what the loop did with it
  pc                                       \* position of Convert.run

\* CleanLink.normalize_path applied to an input path
VARIABLES path, norm_once, norm_twice, norm_pc

\* table balancing scan of Convert.clean_text
VARIABLES scan_text, lines, open_tables, cleaned_lines, scan_line, scan_pc

\* converter version and the URL rewrite of Convert.clean_text
VARIABLES tool_version, pandoc_version, fix_text, fix_out, fix_pc

\* Convert.convert_tables_to_markdown applied to a text
VARIABLES table_text, table_rows, table_out, table_pc

run_vars == <<flatten, addmeta, indexes, skiperrors, data_to_convert, page_idx,
              counter, directory_list, files, dirs, pandoc_calls, page_log, pc>>
norm_vars == <<path, norm_once, norm_twice, norm_pc>>
scan_vars == <<scan_text, lines, open_tables, cleaned_lines, scan_line, scan_pc>>
fix_vars == <<tool_version, pandoc_version, fix_text, fix_out, fix_pc>>
table_vars == <<table_text, table_rows, table_out, table_pc>>
vars == <<run_vars, norm_vars, scan_vars, fix_vars, table_vars>>

\* options.get('output', './output/')
output == <<".", "/", "o", "u", "t", "p", "u", "t", "/">>

\* page titles of the modelled dumps
Titles ==
  { <<"A">>, <<"A", "/", "B">>, <<"A", " ", "B">>, <<"A", "_", "B">> }

\* raw wikitext bodies of the modelled dumps, as tokens
Texts ==
  { <<"Some text">>, <<"<noinclude>", "{{", "doc", "}}", "</noinclude>">> }

Pages == [title : Titles \cup {None}, text : Texts \cup {None}]

\* retrieve_file_info: characters replaced by '_'
invalid_chars == <<":", "/", "*", "?", "<", ">", "|", "\\", "\"">>

RECURSIVE replace_invalid(_, _)
replace_invalid(title, chars) ==
  IF chars = <<>> THEN title
  ELSE replace_invalid(replace(title, <<chars[1]>>, <<"_">>), Tail(chars))

\* Convert.retrieve_file_info: the returned file_meta, and what it appends
\* to directory_list
retrieve_file_info(title) ==
  LET t == replace_invalid(title, invalid_chars)
      url == replace(t, <<" ">>, <<"_">>)
      parts == split(url, "/")
      has_dir == "/" \in Range(url)
      directory == IF has_dir THEN join(<<"/">>, Front(parts)) ELSE <<>>
      filename == IF has_dir THEN Last(parts) ELSE url
  IN  [directory |-> path_join(output, directory),
       filename |-> filename,
       title |-> t,
       url |-> url,
       recorded |-> IF has_dir THEN <<directory>> ELSE <<>>]

\* Convert.get_metadata
get_metadata(meta_on, file_meta) ==
  IF meta_on
  THEN <<"---\n", "title: ">> \o file_meta.title \o <<"\n", "permalink: /">>
       \o file_meta.url \o <<"/\n", "---\n\n">>
  ELSE <<>>

\* path written by Convert.save_file
file_path_of(file_meta) == path_join(file_meta.directory, file_meta.filename \o <<".", "m", "d">>)

\* Convert.clean_text as far as the page loop depends on it: the template
\* test and the removal of the noinclude tags in the template branch
is_template_text(text) ==
  "<noinclude>" \in Range(text) /\ "{{" \in Range(text) /\ "}}" \in Range(text)

clean_text(text) ==
  [text |-> IF is_template_text(text)
            THEN SelectSeq(text, LAMBDA tok : tok \notin {"<noinclude>", "</noinclude>"})
            ELSE text,
   is_template |-> is_template_text(text)]

\* Convert.convert_template_to_markdown: fixed heading, then the kept lines
convert_template_to_markdown(text) == <<"# Template Documentation\n">> \o text

\* Convert.run_pandoc on success: the converter's rendering of the text
run_pandoc(text) == <<"<pandoc>">> \o text \o <<"</pandoc>">>

\* variant: the guard on the revision text is missing
missing_field_mut(page) == page.title = None

\* the two guards of convert_data that skip a page
missing_field(page) == page.title = None \/ page.text = None

\* variant: the except-branch never re-raises
on_exception_mut(skip) == "convert"

\* except-branch of convert_data: re-raise or go on
on_exception(skip) == IF ~skip THEN "aborted" ELSE "convert"

\* position after the loop body: next page, or the index pass after the last
after_page(next_pc, idx) ==
  IF next_pc = "convert" /\ idx > Len(data_to_convert) THEN "rename" ELSE next_pc

LogEntry(status, page, file_path) == [status |-> status, title |-> page.title, path |-> file_path]

InitRunIdle ==
  /\ flatten = FALSE /\ addmeta = FALSE /\ indexes = FALSE /\ skiperrors = FALSE
  /\ data_to_convert = <<>>
  /\ page_idx = 1 /\ counter = 0 /\ directory_list = <<>>
  /\ files = <<>> /\ dirs = {}
  /\ pandoc_calls = 0 /\ page_log = <<>>
  /\ pc = "idle"

InitNormIdle == path = <<>> /\ norm_once = None /\ norm_twice = None /\ norm_pc = "idle"

InitScanIdle ==
  /\ scan_text = <<>> /\ lines = <<>> /\ open_tables = 0 /\ cleaned_lines = <<>>
  /\ scan_line = None /\ scan_pc = "idle"

InitFixIdle ==
  /\ tool_version = <<0, 0, 0>> /\ pandoc_version = <<>> /\ fix_text = <<>>
  /\ fix_out = None /\ fix_pc = "idle"

InitTableIdle ==
  table_text = <<>> /\ table_rows = None /\ table_out = None /\ table_pc = "idle"

\* Convert.__init__, then run() up to the page loop: create_directory(output),
\* load_data (at least one page, else it raises)
Init ==
  /\ flatten \in BOOLEAN /\ addmeta \in BOOLEAN
  /\ indexes \in BOOLEAN /\ skiperrors \in BOOLEAN
  /\ data_to_convert \in UNION {[1..n -> Pages] : n \in 1..MaxPages}
  /\ page_idx = 1 /\ counter = 0 /\ directory_list = <<>>
  /\ files = <<>> /\ dirs = {output}
  /\ pandoc_calls = 0 /\ page_log = <<>>
  /\ pc = "convert"
  /\ InitNormIdle /\ InitScanIdle /\ InitFixIdle /\ InitTableIdle

\* one iteration of the loop of convert_data on a page without title or text
SkipPage ==
  /\ pc = "convert" /\ page_idx <= Len(data_to_convert)
  /\ LET page == data_to_convert[page_idx] IN
       /\ missing_field(page)
       /\ page_log' = Append(page_log, LogEntry("skipped", page, None))
  /\ page_idx' = page_idx + 1
  /\ pc' = after_page("convert", page_idx + 1)
  /\ UNCHANGED <<flatten, addmeta, indexes, skiperrors, data_to_convert, counter,
                 directory_list, files, dirs, pandoc_calls>>
  /\ UNCHANGED <<norm_vars, scan_vars, fix_vars, table_vars>>

\* one iteration of the loop of convert_data on a page with title and text;
\* pandoc_ok and write_ok are the outcomes of the converter and of the write
ConvertPage(pandoc_ok, write_ok) ==
  /\ pc = "convert" /\ page_idx <= Len(data_to_convert)
  /\ LET page == data_to_convert[page_idx]
         file_meta == retrieve_file_info(page.title)
         cleaned == clean_text(page.text)
         converted == IF cleaned.is_template
                      THEN convert_template_to_markdown(cleaned.text)
                      ELSE run_pandoc(cleaned.text)
         rendered == cleaned.is_template \/ pandoc_ok
         file_path == file_path_of(file_meta)
         next_pc == IF rendered /\ write_ok THEN "convert" ELSE on_exception(skiperrors)
     IN
       /\ ~missing_field(page)
       /\ cleaned.is_template => pandoc_ok
       /\ ~rendered => write_ok
       /\ directory_list' = directory_list \o file_meta.recorded
       /\ pandoc_calls' = IF cleaned.is_template THEN pandoc_calls ELSE pandoc_calls + 1
       /\ dirs' = IF rendered THEN dirs \cup {file_meta.directory} ELSE dirs
       /\ files' = IF rendered /\ write_ok
                   THEN (file_path :> (get_metadata(addmeta, file_meta) \o converted)) @@ files
                   ELSE IF rendered THEN (file_path :> <<>>) @@ files
                   ELSE files
       /\ counter' = IF rendered /\ write_ok THEN counter + 1 ELSE counter
       /\ page_log' = Append(page_log,
                        LogEntry(IF ~rendered THEN "pandoc_failed"
                                 ELSE IF ~write_ok THEN "write_failed" ELSE "converted",
                                 page, file_path))
       /\ page_idx' = IF next_pc = "aborted" THEN page_idx ELSE page_idx + 1
       /\ pc' = after_page(next_pc, page_idx + 1)
  /\ UNCHANGED <<flatten, addmeta, indexes, skiperrors, data_to_convert>>
  /\ UNCHANGED <<norm_vars, scan_vars, fix_vars, table_vars>>

\* the loop of Convert.rename_files over the recorded directories; it stops
\* with failed set when os.rename raises for a missing target directory
RECURSIVE rename_loop(_, _)
rename_loop(fs, dl) ==
  IF dl = <<>> THEN [failed |-> FALSE, fs |-> fs]
  ELSE LET directory == dl[1]
           file_path == path_join(output, directory \o <<".", "m", "d">>)
           target_dir == path_join(output, directory)
           target == path_join(target_dir, <<"i", "n", "d", "e", "x", ".", "m", "d">>)
       IN  IF file_path \in DOMAIN fs
           THEN IF target_dir \in dirs
                THEN rename_loop((target :> fs[file_path])
                                   @@ [p \in (DOMAIN fs) \ {file_path} |-> fs[p]],
                                 Tail(dl))
                ELSE [failed |-> TRUE, fs |-> fs]
           ELSE rename_loop(fs, Tail(dl))

\* Convert.rename_files followed by the final report of run()
RenameFiles ==
  /\ pc = "rename"
  /\ LET renamed == IF ~flatten /\ indexes THEN rename_loop(files, directory_list)
                    ELSE [failed |-> FALSE, fs |-> files]
     IN  /\ pc' = IF renamed.failed THEN "aborted" ELSE "done"
         /\ files' = renamed.fs
  /\ UNCHANGED <<flatten, addmeta, indexes, skiperrors, data_to_convert, page_idx,
                 counter, directory_list, dirs, pandoc_calls, page_log>>
  /\ UNCHANGED <<norm_vars, scan_vars, fix_vars, table_vars>>

Next ==
  \/ SkipPage
  \/ \E pandoc_ok \in BOOLEAN, write_ok \in BOOLEAN : ConvertPage(pandoc_ok, write_ok)
  \/ RenameFiles

Spec == Init /\ [][Next]_vars


\* ------------------------------------------------------------------------
\* CleanLink.normalize_path
\* ------------------------------------------------------------------------
\* re.sub(r'/+', '/', path)
RECURSIVE collapse_slashes(_)
collapse_slashes(s) ==
  IF Len(s) < 2 THEN s
  ELSE IF s[1] = "/" /\ s[2] = "/" THEN collapse_slashes(Tail(s))
  ELSE <<s[1]>> \o collapse_slashes(Tail(s))

\* variant: a '..' with nothing to pop is kept as a segment
resolve_segment_mut(parts, segment) ==
  IF segment = <<".">> THEN parts
  ELSE IF segment = <<".", ".">> /\ parts # <<>> THEN Front(parts)
  ELSE Append(parts, segment)

\* one pass of the segment loop of normalize_path
resolve_segment(parts, segment) ==
  IF segment = <<".">> THEN parts
  ELSE IF segment = <<".", ".">>
       THEN IF parts # <<>> THEN Front(parts) ELSE parts
       ELSE Append(parts, segment)

RECURSIVE resolve_segments(_, _)
resolve_segments(parts, segments) ==
  IF segments = <<>> THEN parts
  ELSE resolve_segments(resolve_segment(parts, segments[1]), Tail(segments))

normalize_path(p) ==
  LET slashed == replace(p, <<"\\">>, <<"/">>)
      collapsed == collapse_slashes(slashed)
      segments == split(collapsed, "/")
  IN  join(<<"/">>, resolve_segments(<<>>, segments))

PathChars == {"a", "b", ".", "/", "\\"}

PathExamples ==
  { <<"a", "/", ".", "/", "b">>,
    <<"a", "/", "b", "/", ".", ".", "/", "c">>,
    <<".", ".", "/", "a">> }

Paths == StringsUpTo(PathChars, MaxPathLen) \cup PathExamples

InitNorm ==
  /\ path \in Paths
  /\ norm_once = None /\ norm_twice = None /\ norm_pc = "start"
  /\ InitRunIdle /\ InitScanIdle /\ InitFixIdle /\ InitTableIdle

\* clean_link normalizes the link path
NormalizeOnce ==
  /\ norm_pc = "start"
  /\ norm_once' = normalize_path(path)
  /\ norm_pc' = "once"
  /\ UNCHANGED <<path, norm_twice, run_vars, scan_vars, fix_vars, table_vars>>

\* the normalized path is normalized again
NormalizeTwice ==
  /\ norm_pc = "once"
  /\ norm_twice' = normalize_path(norm_once)
  /\ norm_pc' = "twice"
  /\ UNCHANGED <<path, norm_once, run_vars, scan_vars, fix_vars, table_vars>>

NextNorm == NormalizeOnce \/ NormalizeTwice

SpecNorm == InitNorm /\ [][NextNorm]_vars

\* ------------------------------------------------------------------------
\* Convert.clean_text: table balancing scan (non-template branch)
\* ------------------------------------------------------------------------
TableOpen == <<"{", "|">>
TableClose == <<"|", "}">>
Malformed == <<"{", "|", "}">>

\* variant: a closing line is kept without looking at the counter
scan_step_mut(open, cleaned, line) ==
  IF startswith(strip(line), TableOpen)
  THEN [open_tables |-> open + 1, cleaned_lines |-> Append(cleaned, TableOpen)]
  ELSE IF startswith(strip(line), TableClose)
  THEN [open_tables |-> IF open > 0 THEN open - 1 ELSE open,
        cleaned_lines |-> Append(cleaned, TableClose)]
  ELSE IF startswith(strip(line), Malformed)
  THEN [open_tables |-> open, cleaned_lines |-> cleaned]
  ELSE [open_tables |-> open, cleaned_lines |-> Append(cleaned, line)]

\* body of the loop over the lines: the new counter and output lines
scan_step(open, cleaned, line) ==
  IF startswith(strip(line), TableOpen)
  THEN [open_tables |-> open + 1, cleaned_lines |-> Append(cleaned, TableOpen)]
  ELSE IF startswith(strip(line), TableClose)
  THEN IF open > 0
       THEN [open_tables |-> open - 1, cleaned_lines |-> Append(cleaned, TableClose)]
       ELSE [open_tables |-> open, cleaned_lines |-> cleaned]
  ELSE IF startswith(strip(line), Malformed)
  THEN [open_tables |-> open, cleaned_lines |-> cleaned]
  ELSE [open_tables |-> open, cleaned_lines |-> Append(cleaned, line)]

\* ['|}'] * open_tables
closers(n) == [i \in 1..n |-> TableClose]

ScanChars == {"{", "|", "}", " ", "\n"}

ScanTexts == StringsUpTo(ScanChars, MaxTextLen)

\* lines = text.split('\n'), open_tables = 0, cleaned_lines = []
InitScan ==
  /\ scan_text \in ScanTexts
  /\ lines = split(scan_text, "\n")
  /\ open_tables = 0 /\ cleaned_lines = <<>>
  /\ scan_line = None /\ scan_pc = "scan"
  /\ InitRunIdle /\ InitNormIdle /\ InitFixIdle /\ InitTableIdle

\* one iteration of `for line in lines`
ScanLine ==
  /\ scan_pc = "scan" /\ lines # <<>>
  /\ LET r == scan_step(open_tables, cleaned_lines, Head(lines)) IN
       /\ open_tables' = r.open_tables
       /\ cleaned_lines' = r.cleaned_lines
  /\ scan_line' = Head(lines)
  /\ lines' = Tail(lines)
  /\ UNCHANGED <<scan_text, scan_pc, run_vars, norm_vars, fix_vars, table_vars>>

\* cleaned_lines.extend(['|}'] * open_tables)
ScanClose ==
  /\ scan_pc = "scan" /\ lines = <<>>
  /\ cleaned_lines' = cleaned_lines \o closers(open_tables)
  /\ scan_pc' = "done"
  /\ UNCHANGED <<scan_text, lines, open_tables, scan_line, run_vars, norm_vars, fix_vars, table_vars>>

NextScan == ScanLine \/ ScanClose

SpecScan == InitScan /\ [][NextScan]_vars

\* ------------------------------------------------------------------------
\* Converter version and the URL rewrite for old converters
\* ------------------------------------------------------------------------
\* PandocFix.url_fix
url_fix(url) ==
  replace(replace(replace(url, <<"=", "&">>, <<"=", "%", "2", "0", "&">>),
                  <<"=", " ">>, <<"=", "%", "2", "0", " ">>),
          <<".", "&">>, <<".", "%", "2", "0", "&">>)

Digits == <<"0", "1", "2", "3", "4", "5", "6", "7", "8", "9">>

\* decimal digits of a natural number
RECURSIVE int_to_str(_)
int_to_str(n) ==
  IF n < 10 THEN <<Digits[n + 1]>> ELSE int_to_str(n \div 10) \o <<Digits[(n % 10) + 1]>>

\* stdout of `pandoc --version` of a converter of version v
version_output(v) ==
  <<"p", "a", "n", "d", "o", "c", " ">>
    \o int_to_str(v[1]) \o <<".">> \o int_to_str(v[2]) \o <<".">> \o int_to_str(v[3])
    \o <<"\n", "Compiled with pandoc-types", "\n">>

\* Convert.get_pandoc_version: result.stdout.decode().splitlines()[0]
get_pandoc_version(stdout) == split(stdout, "\n")[1]

\* code points of the characters that occur in version strings
Ord(c) ==
  CASE c = " " -> 32 [] c = "." -> 46
    [] c = "0" -> 48 [] c = "1" -> 49 [] c = "2" -> 50 [] c = "3" -> 51 [] c = "4" -> 52
    [] c = "5" -> 53 [] c = "6" -> 54 [] c = "7" -> 55 [] c = "8" -> 56 [] c = "9" -> 57
    [] c = "a" -> 97 [] c = "c" -> 99 [] c = "d" -> 100
    [] c = "n" -> 110 [] c = "o" -> 111 [] c = "p" -> 112

\* Python's a <= b on str: lexicographic by code point
RECURSIVE str_le(_, _)
str_le(a, b) ==
  IF a = <<>> THEN TRUE
  ELSE IF b = <<>> THEN FALSE
  ELSE IF a[1] # b[1] THEN Ord(a[1]) < Ord(b[1])
  ELSE str_le(Tail(a), Tail(b))

LegacyVersion == <<"2", ".", "0", ".", "2">>

UrlOpen == <<"[", "h", "t", "t", "p">>

\* end of the leftmost-shortest match of \[(http.+?)\] at the start of s, 0 if none
url_match_end(s) ==
  LET ends == {j \in 7..Len(s) : s[j] = "]" /\ \A k \in 6..(j - 1) : s[k] # "\n"}
  IN  IF startswith(s, UrlOpen) /\ ends # {}
      THEN CHOOSE j \in ends : \A k \in ends : j <= k
      ELSE 0

\* re.sub(r'\[(http.+?)\]', lambda m: pandoc_fix.url_fix(m.group(0)), text)
RECURSIVE sub_urls(_)
sub_urls(s) ==
  IF s = <<>> THEN <<>>
  ELSE LET j == url_match_end(s)
       IN  IF j > 0
           THEN url_fix(SubSeq(s, 1, j)) \o sub_urls(SubSeq(s, j + 1, Len(s)))
           ELSE <<s[1]>> \o sub_urls(Tail(s))

\* "Hack to fix URLs for older version of Pandoc" in clean_text
url_hack(version, text) == IF str_le(version, LegacyVersion) THEN sub_urls(text) ELSE text

Versions == (0..MaxVer) \X (0..MaxVer) \X (0..MaxVer)

UrlChars == {"=", "&", " ", "."}

FixTexts == {UrlOpen \o w \o <<"]">> : w \in StringsUpTo(UrlChars, MaxUrlLen)}

InitFix ==
  /\ tool_version \in Versions
  /\ fix_text \in FixTexts
  /\ pandoc_version = None /\ fix_out = None /\ fix_pc = "init"
  /\ InitRunIdle /\ InitNormIdle /\ InitScanIdle /\ InitTableIdle

\* Convert.__init__: self.pandoc_version = self.get_pandoc_version()
QueryVersion ==
  /\ fix_pc = "init"
  /\ pandoc_version' = get_pandoc_version(version_output(tool_version))
  /\ fix_pc' = "ready"
  /\ UNCHANGED <<tool_version, fix_text, fix_out, run_vars, norm_vars, scan_vars, table_vars>>

\* clean_text reaches the URL rewrite
ApplyUrlHack ==
  /\ fix_pc = "ready"
  /\ fix_out' = url_hack(pandoc_version, fix_text)
  /\ fix_pc' = "done"
  /\ UNCHANGED <<tool_version, pandoc_version, fix_text, run_vars, norm_vars, scan_vars, table_vars>>

NextFix == QueryVersion \/ ApplyUrlHack

SpecFix == InitFix /\ [][NextFix]_vars


\* ------------------------------------------------------------------------
\* Convert.convert_tables_to_markdown
\* ------------------------------------------------------------------------
\* s.split(sep) for a separator of any length
RECURSIVE split_on(_, _)
split_on(s, sep) ==
  LET starts == {i \in 1..(Len(s) - Len(sep) + 1) : SubSeq(s, i, i + Len(sep) - 1) = sep}
  IN  IF starts = {} THEN <<s>>
      ELSE LET k == CHOOSE i \in starts : \A j \in starts : i <= j
           IN  <<SubSeq(s, 1, k - 1)>> \o split_on(SubSeq(s, k + Len(sep), Len(s)), sep)

RowSeparator == <<"|", "-">>

\* [cell.strip() for cell in row.split('|') if cell.strip()]
cleaned_cells(row) ==
  LET cells == split(row, "|")
      stripped == [i \in 1..Len(cells) |-> strip(cells[i])]
  IN  SelectSeq(stripped, LAMBDA cell : cell # <<>>)

\* '| ' + ' | '.join(cleaned_cells) + ' |'
markdown_row(cells) == <<"|", " ">> \o join(<<" ", "|", " ">>, cells) \o <<" ", "|">>

\* '|' + '|'.join(['---' for _ in cleaned_cells]) + '|'
header_separator(cells) ==
  <<"|">> \o join(<<"|">>, [i \in 1..Len(cells) |-> <<"-", "-", "-">>]) \o <<"|">>

\* the loop `for i, row in enumerate(rows)` from the row of index i on
\* (index 1 here is Python's i == 0)
RECURSIVE convert_rows(_, _)
convert_rows(rows, i) ==
  IF i > Len(rows) THEN <<>>
  ELSE LET cells == cleaned_cells(rows[i])
           emitted == IF cells = <<>> THEN <<>>
                      ELSE IF i = 1 THEN <<markdown_row(cells), header_separator(cells)>>
                      ELSE <<markdown_row(cells)>>
       IN  emitted \o convert_rows(rows, i + 1)

\* markdown_rows of convert_table for the content of a matched block
markdown_rows(table_content) == convert_rows(split_on(table_content, RowSeparator), 1)

\* convert_table: '\n'.join(markdown_rows)
convert_table(table_content) == join(<<"\n">>, markdown_rows(table_content))

\* position of the closing '|}' of the leftmost-shortest match of
\* {\|(.*?)\|} (DOTALL) at the start of s, 0 if there is none
table_match_end(s) ==
  LET ends == {j \in 3..(Len(s) - 1) : s[j] = "|" /\ s[j + 1] = "}"}
  IN  IF startswith(s, <<"{", "|">>) /\ ends # {}
      THEN CHOOSE j \in ends : \A k \in ends : j <= k
      ELSE 0

\* re.sub(r'{\|(.*?)\|}', convert_table, text, flags=re.DOTALL)
RECURSIVE convert_tables_to_markdown(_)
convert_tables_to_markdown(s) ==
  IF s = <<>> THEN <<>>
  ELSE LET j == table_match_end(s)
       IN  IF j > 0
           THEN convert_table(SubSeq(s, 3, j - 1))
                  \o convert_tables_to_markdown(SubSeq(s, j + 2, Len(s)))
           ELSE <<s[1]>> \o convert_tables_to_markdown(Tail(s))

\* match.group(1) of the first match in s, None if nothing matches
RECURSIVE first_table_content(_)
first_table_content(s) ==
  IF s = <<>> THEN None
  ELSE IF table_match_end(s) > 0 THEN SubSeq(s, 3, table_match_end(s) - 1)
  ELSE first_table_content(Tail(s))

TableChars == {"|", "-", "a", " ", "}"}

TableTexts == {<<"{", "|">> \o w \o <<"|", "}">> : w \in StringsUpTo(TableChars, MaxTableLen)}

InitTable ==
  /\ table_text \in TableTexts
  /\ table_rows = None /\ table_out = None /\ table_pc = "start"
  /\ InitRunIdle /\ InitNormIdle /\ InitScanIdle /\ InitFixIdle

\* clean_text calls convert_tables_to_markdown; table_rows keeps the
\* markdown_rows that convert_table built for the first matched block
ConvertTables ==
  /\ table_pc = "start"
  /\ table_out' = convert_tables_to_markdown(table_text)
  /\ table_rows' = IF first_table_content(table_text) = None THEN <<>>
                   ELSE markdown_rows(first_table_content(table_text))
  /\ table_pc' = "done"
  /\ UNCHANGED <<table_text, run_vars, norm_vars, scan_vars, fix_vars>>

NextTable == ConvertTables

SpecTable == InitTable /\ [][NextTable]_vars

\* ------------------------------------------------------------------------
\* Properties
\* ------------------------------------------------------------------------
MdSuffix == <<".", "m", "d">>

\* url form of a raw title with its path separators kept
title_segments(title) == split(replace(title, <<" ">>, <<"_">>), "/")

\* directory of a title relative to the output root: all segments but the last
title_directory(title) == join(<<"/">>, Front(title_segments(title)))

has_slash(title) == title # None /\ "/" \in Range(title)

\* C1: every page whose title contains '/' is resolved to the directory made
\* of all segments but the last and the file name made of the last segment,
\* so its file is <output>/<directory>/<last segment>.md.
C1_PathResolution ==
  \A i \in 1..Len(page_log) :
    (has_slash(page_log[i].title) /\ page_log[i].status # "skipped")
      => page_log[i].path =
           path_join(path_join(output, title_directory(page_log[i].title)),
                     Last(title_segments(page_log[i].title)) \o MdSuffix)

distinct_titles ==
  \A i, j \in 1..Len(data_to_convert) :
    i # j => data_to_convert[i].title # data_to_convert[j].title

all_converted ==
  /\ Len(page_log) = Len(data_to_convert)
  /\ \A i \in 1..Len(page_log) : page_log[i].status = "converted"

\* C2: when the titles of a dump are pairwise distinct and every page is
\* converted and written, the run ends with as many files as pages, and
\* that number is the reported counter.
C2_OneFilePerPage ==
  (pc = "done" /\ distinct_titles /\ all_converted)
    => /\ Cardinality(DOMAIN files) = Len(data_to_convert)
       /\ counter = Len(data_to_convert)

converter_fails_step ==
  /\ Len(page_log') = Len(page_log) + 1
  /\ Last(page_log').status = "pandoc_failed"

\* C3: a step of the page loop in which the converter fails writes no file
\* and leaves the counter alone; without skiperrors the run is aborted on
\* that page, with skiperrors the loop goes on with the next page.  Nothing
\* happens after an abort.
C3_FailurePolicy ==
  [][ /\ pc # "aborted"
      /\ converter_fails_step =>
           /\ files' = files
           /\ counter' = counter
           /\ IF skiperrors
              THEN /\ page_idx' = page_idx + 1
                   /\ pc' = IF page_idx' <= Len(data_to_convert) THEN "convert" ELSE "rename"
              ELSE /\ pc' = "aborted"
                   /\ page_idx' = page_idx ]_vars

\* the converter failed on the first page of a longer dump and the run stopped
C3_Witness ==
  /\ ~skiperrors /\ pc = "aborted"
  /\ Len(page_log) = 1 /\ Len(data_to_convert) > 1
  /\ page_log[1].status = "pandoc_failed"
  /\ pandoc_calls = 1 /\ counter = 0 /\ DOMAIN files = {}

at_page_without_field ==
  /\ pc = "convert" /\ page_idx <= Len(data_to_convert)
  /\ \/ data_to_convert[page_idx].title = None
     \/ data_to_convert[page_idx].text = None

\* C4: the loop step on a page without title or without text changes no
\* file, counter, directory list or converter call count, whatever the
\* skiperrors option, and moves on to the next page.
C4_SkipMissingField ==
  [][ at_page_without_field =>
        /\ files' = files /\ dirs' = dirs
        /\ counter' = counter
        /\ directory_list' = directory_list
        /\ pandoc_calls' = pandoc_calls
        /\ page_idx' = page_idx + 1
        /\ pc' = IF page_idx' <= Len(data_to_convert) THEN "convert" ELSE "rename" ]_vars

\* without skiperrors a page with a title but no text was skipped and the
\* page after it was converted
C4_Witness ==
  /\ ~skiperrors
  /\ Len(page_log) = 2
  /\ page_log[1].status = "skipped" /\ page_log[1].title # None
  /\ data_to_convert[1].text = None
  /\ page_log[2].status = "converted"
  /\ counter = 1 /\ Cardinality(DOMAIN files) = 1

IndexMd == <<"i", "n", "d", "e", "x", ".", "m", "d">>

\* C5: with flatten off and indexes on, the directory of every resolved
\* title with a '/' is in the directory list, and a dump with the pages A
\* and A/B ends with <output>/A/index.md and <output>/A/B.md.
C5_IndexPass ==
  (pc = "done" /\ ~flatten /\ indexes) =>
    /\ \A i \in 1..Len(page_log) :
         (has_slash(page_log[i].title) /\ page_log[i].status # "skipped")
           => title_directory(page_log[i].title) \in Range(directory_list)
    /\ (all_converted /\ distinct_titles
        /\ {data_to_convert[i].title : i \in 1..Len(data_to_convert)}
             = {<<"A">>, <<"A", "/", "B">>})
         => DOMAIN files = {output \o <<"A", "/">> \o IndexMd,
                            output \o <<"A", "/", "B">> \o MdSuffix}

\* C6: a scan step on a line that starts, after trimming, with '{|}' adds no
\* output line and leaves the open-table counter alone.
C6_MalformedDropped ==
  [][ (scan_pc = "scan" /\ lines # <<>> /\ startswith(strip(Head(lines)), Malformed))
        => (cleaned_lines' = cleaned_lines /\ open_tables' = open_tables) ]_vars

\* number of lines of out[1..k] that start with the marker
starts_in(out, k, marker) == Cardinality({i \in 1..k : startswith(strip(out[i]), marker)})

\* C7: during the scan the counter is the number of kept '{|' lines minus
\* the number of kept '|}' lines; a '|}' line is kept exactly when the
\* counter is positive; the end of the scan appends one '|}' per open
\* table; so the output has as many '|}' lines as '{|' lines and no prefix
\* of it has more '|}' lines than '{|' lines.
C7_Balanced ==
  /\ [](/\ \A k \in 0..Len(cleaned_lines) :
             starts_in(cleaned_lines, k, TableClose) <= starts_in(cleaned_lines, k, TableOpen)
        /\ scan_pc = "scan" =>
             open_tables = starts_in(cleaned_lines, Len(cleaned_lines), TableOpen)
                           - starts_in(cleaned_lines, Len(cleaned_lines), TableClose)
        /\ scan_pc = "done" =>
             starts_in(cleaned_lines, Len(cleaned_lines), TableOpen)
               = starts_in(cleaned_lines, Len(cleaned_lines), TableClose))
  /\ [][ /\ (scan_pc = "scan" /\ scan_pc' = "done") =>
              /\ Len(cleaned_lines') = Len(cleaned_lines) + open_tables
              /\ SubSeq(cleaned_lines', 1, Len(cleaned_lines)) = cleaned_lines
              /\ \A i \in (Len(cleaned_lines) + 1)..Len(cleaned_lines') :
                   cleaned_lines'[i] = TableClose
         /\ (scan_pc = "scan" /\ lines # <<>>
             /\ startswith(strip(Head(lines)), TableClose)) =>
              IF open_tables > 0
              THEN cleaned_lines' = Append(cleaned_lines, TableClose)
              ELSE cleaned_lines' = cleaned_lines ]_vars

\* a '|}' line before any table was dropped, and the one unmatched '{|'
\* got exactly one '|}' appended
C7_Witness ==
  /\ scan_pc = "done"
  /\ scan_text = <<"|", "}", "\n", "{", "|">>
  /\ open_tables = 1
  /\ cleaned_lines = <<TableOpen, TableClose>>

no_double_slash(s) == \A i \in 1..(Len(s) - 1) : ~(s[i] = "/" /\ s[i + 1] = "/")

\* C8: normalizing a normalized path changes nothing; a normalized path has
\* no backslash, no repeated slash and no '.' or '..' segment; a/./b gives
\* a/b, a/b/../c gives a/c and ../a gives a.
C8_NormalizeIdempotent ==
  /\ norm_pc = "twice" => norm_twice = norm_once
  /\ norm_pc \in {"once", "twice"} =>
       /\ "\\" \notin Range(norm_once)
       /\ no_double_slash(norm_once)
       /\ \A i \in 1..Len(split(norm_once, "/")) :
            split(norm_once, "/")[i] \notin {<<".">>, <<".", ".">>}
       /\ path = <<"a", "/", ".", "/", "b">> => norm_once = <<"a", "/", "b">>
       /\ path = <<"a", "/", "b", "/", ".", ".", "/", "c">> => norm_once = <<"a", "/", "c">>
       /\ path = <<".", ".", "/", "a">> => norm_once = <<"a">>

\* a path with backslash, repeated slash, '.' and '..' was normalized twice
C8_Witness ==
  /\ norm_pc = "twice"
  /\ path = <<".", ".", "\\", "/", "a">>
  /\ norm_once = <<"a">> /\ norm_twice = <<"a">>

front_matter(title, url) ==
  <<"---\n", "title: ">> \o title \o <<"\n", "permalink: /">> \o url \o <<"/\n", "---\n\n">>

\* C9: right after a page titled A/B is written, its file starts with the
\* front-matter block with "title: A/B" and "permalink: /A_B/" when addmeta
\* is set, and with the converted body when it is not.
C9_FrontMatter ==
  \A i \in 1..Len(page_log) :
    (i = Len(page_log) /\ pc \in {"convert", "rename"}
     /\ page_log[i].title = <<"A", "/", "B">> /\ page_log[i].status = "converted")
      => LET content == files[page_log[i].path]
             body == IF is_template_text(data_to_convert[i].text)
                     THEN convert_template_to_markdown(clean_text(data_to_convert[i].text).text)
                     ELSE run_pandoc(data_to_convert[i].text)
         IN  content = (IF addmeta
                        THEN front_matter(<<"A", "/", "B">>, <<"A", "_", "B">>)
                        ELSE <<>>) \o body

\* numeric order of versions: v at or below w
version_le(v, w) ==
  \/ v[1] < w[1]
  \/ v[1] = w[1] /\ v[2] < w[2]
  \/ v[1] = w[1] /\ v[2] = w[2] /\ v[3] <= w[3]

\* C10: the bracketed URL is rewritten when the converter's version is at
\* or below 2.0.2 and left alone when it is above.
C10_LegacyRewrite ==
  fix_pc = "done" =>
    fix_out = IF version_le(tool_version, <<2, 0, 2>>) THEN sub_urls(fix_text) ELSE fix_text

\* cells of the non-empty rows of the first matched block of a text
nonempty_rows(text) ==
  LET rows == split_on(first_table_content(text), RowSeparator)
      cells == [i \in 1..Len(rows) |-> cleaned_cells(rows[i])]
  IN  SelectSeq(cells, LAMBDA c : c # <<>>)

\* C11: when a matched block has a non-empty row, its output rows are the
\* pipe-delimited first non-empty row, then one separator row with one
\* '---' per cell of that row, then one pipe-delimited row for each further
\* non-empty row, also when the text before the first '|-' is empty.
C11_HeaderSeparator ==
  (table_pc = "done" /\ nonempty_rows(table_text) # <<>>) =>
    LET ne == nonempty_rows(table_text)
    IN  table_rows = <<markdown_row(ne[1]), header_separator(ne[1])>>
                       \o [i \in 1..(Len(ne) - 1) |-> markdown_row(ne[i + 1])]

====
